---- MODULE Spec2Model ----
(***************************************************************************)
(* Model of the infix calculator: shunting_yard::tokenize (infix text to   *)
(* postfix tokens) and shunting_yard::evaluate (postfix tokens to f64),    *)
(* chained as calculator::calculate does.                                  *)
(*                                                                         *)
(* Text is a sequence of one-character strings.  An f64 is a pair <<n, d>>:*)
(* a finite value is the fraction n/d in lowest terms with d >= 1,         *)
(* <<1,0>> and <<-1,0>> are the infinities and <<0,0>> is NaN.  Arithmetic *)
(* on finite values is exact; binary rounding and the sign of zero are not *)
(* modelled.  A finite result whose numerator or denominator exceeds FMax, *)
(* or a real power that is not a fraction, lies outside the modelled part  *)
(* of f64 (OutOfModel): the evaluator's step is not taken for it, so every *)
(* run that finishes has used exact arithmetic only.                       *)
(***************************************************************************)
EXTENDS Integers, Sequences, FiniteSets

VARIABLES expr, chars, idx, operators, pe, operand, pc, tokens, tidx, operands, ret, tree

vars == <<expr, chars, idx, operators, pe, operand, pc, tokens, tidx, operands, ret, tree>>

(***************************************************************************)
(* Bounds of the model.                                                    *)
(***************************************************************************)
MaxLen == 4
MaxOps == 2
MaxTokens == 3
FMax == 10000

(***************************************************************************)
(* f64 values.                                                             *)
(***************************************************************************)
NaN == <<0, 0>>
PosInf == <<1, 0>>
NegInf == <<-1, 0>>
OutOfModel == <<0, -1>>
ParseError == <<0, -2>>

Abs(x) == IF x < 0 THEN -x ELSE x
Sgn(x) == IF x < 0 THEN -1 ELSE 1

RECURSIVE GCD(_, _)
GCD(a, b) == IF b = 0 THEN a ELSE GCD(b, a % b)

IsNan(v) == v = NaN
IsInf(v) == v = PosInf \/ v = NegInf
IsFinite(v) == v[2] >= 1
IsZero(v) == v[2] >= 1 /\ v[1] = 0

\* The finite value n/d (d >= 1) in lowest terms, when the model holds it.
Fin(n, d) ==
    LET g == GCD(Abs(n), d)
        v == <<n \div g, d \div g>>
    IN  IF Abs(v[1]) <= FMax /\ v[2] <= FMax THEN v ELSE OutOfModel

SignedInf(s) == IF s < 0 THEN NegInf ELSE PosInf

FNeg(a) == IF a = OutOfModel THEN a ELSE <<-a[1], a[2]>>

FAdd(a, b) ==
    IF a = OutOfModel \/ b = OutOfModel THEN OutOfModel
    ELSE IF IsNan(a) \/ IsNan(b) THEN NaN
    ELSE IF IsInf(a) THEN (IF IsInf(b) /\ a # b THEN NaN ELSE a)
    ELSE IF IsInf(b) THEN b
    ELSE Fin(a[1] * b[2] + b[1] * a[2], a[2] * b[2])

FSub(a, b) == FAdd(a, FNeg(b))

FMul(a, b) ==
    IF a = OutOfModel \/ b = OutOfModel THEN OutOfModel
    ELSE IF IsNan(a) \/ IsNan(b) THEN NaN
    ELSE IF IsInf(a) \/ IsInf(b)
         THEN (IF IsZero(a) \/ IsZero(b) THEN NaN ELSE SignedInf(Sgn(a[1]) * Sgn(b[1])))
    ELSE Fin(a[1] * b[1], a[2] * b[2])

FDiv(a, b) ==
    IF a = OutOfModel \/ b = OutOfModel THEN OutOfModel
    ELSE IF IsNan(a) \/ IsNan(b) THEN NaN
    ELSE IF IsInf(a) THEN (IF IsInf(b) THEN NaN ELSE SignedInf(Sgn(a[1]) * Sgn(b[1])))
    ELSE IF IsInf(b) THEN <<0, 1>>
    ELSE IF IsZero(b) THEN (IF IsZero(a) THEN NaN ELSE SignedInf(Sgn(a[1])))
    ELSE Fin(a[1] * b[2] * Sgn(b[1]), a[2] * Abs(b[1]))

\* Rust's % on f64 is fmod: the quotient is truncated, the sign is the dividend's.
FRem(a, b) ==
    IF a = OutOfModel \/ b = OutOfModel THEN OutOfModel
    ELSE IF IsNan(a) \/ IsNan(b) \/ IsInf(a) \/ IsZero(b) THEN NaN
    ELSE IF IsInf(b) THEN a
    ELSE LET q == Sgn(a[1]) * Sgn(b[1]) * ((Abs(a[1]) * b[2]) \div (a[2] * Abs(b[1])))
         IN  IF Abs(q) > FMax THEN OutOfModel ELSE FSub(a, FMul(b, <<q, 1>>))

\* acc * a^k for a finite a other than 0, 1 and -1: leaves the model after a few steps.
RECURSIVE PowIter(_, _, _)
PowIter(acc, a, k) ==
    IF k = 0 \/ acc = OutOfModel THEN acc ELSE PowIter(FMul(acc, a), a, k - 1)

PowNat(a, k) ==
    IF a = <<1, 1>> THEN a
    ELSE IF a = <<-1, 1>> THEN (IF k % 2 = 0 THEN <<1, 1>> ELSE a)
    ELSE PowIter(<<1, 1>>, a, k)

\* f64::powf (IEEE 754 pow).
FPowf(a, b) ==
    IF a = OutOfModel \/ b = OutOfModel THEN OutOfModel
    ELSE IF IsZero(b) \/ a = <<1, 1>> THEN <<1, 1>>
    ELSE IF IsNan(a) \/ IsNan(b) THEN NaN
    ELSE IF IsInf(b)
         THEN IF a = <<-1, 1>> THEN <<1, 1>>
              ELSE IF IsFinite(a) /\ Abs(a[1]) < a[2]
                   THEN (IF b = PosInf THEN <<0, 1>> ELSE PosInf)
                   ELSE (IF b = PosInf THEN PosInf ELSE <<0, 1>>)
    ELSE IF IsInf(a)
         THEN IF b[1] < 0 THEN <<0, 1>>
              ELSE IF a = NegInf /\ b[2] = 1 /\ b[1] % 2 = 1 THEN NegInf ELSE PosInf
    ELSE IF IsZero(a) THEN (IF b[1] > 0 THEN <<0, 1>> ELSE PosInf)
    ELSE IF b[2] = 1
         THEN (IF b[1] > 0 THEN PowNat(a, b[1]) ELSE FDiv(<<1, 1>>, PowNat(a, -b[1])))
    ELSE IF a[1] < 0 THEN NaN
    ELSE OutOfModel

(***************************************************************************)
(* Operator: the enumeration, its characters, its precedence ranks and the *)
(* comparisons the trait implementations derive from them.                 *)
(***************************************************************************)
None == "None"

Operator == {"Add", "CloseParen", "Div", "OpenParen", "Pow", "Mult", "Sub", "Mod", "Exp"}

try_from(c) ==
    CASE c = "+" -> "Add"
      [] c = ")" -> "CloseParen"
      [] c = "/" -> "Div"
      [] c = "E" -> "Exp"
      [] c = "%" -> "Mod"
      [] c = "*" -> "Mult"
      [] c = "(" -> "OpenParen"
      [] c = "^" -> "Pow"
      [] c = "-" -> "Sub"
      [] OTHER -> None

precidence(op) ==
    CASE op = "Add" -> 1
      [] op = "Div" -> 2
      [] op = "Mod" -> 2
      [] op = "Mult" -> 2
      [] op = "Exp" -> 2
      [] op = "Pow" -> 3
      [] op = "Sub" -> 1
      [] OTHER -> 0

\* PartialEq and PartialOrd compare precedence ranks, not variants.
OpEq(a, b) == precidence(a) = precidence(b)

OpGtRightAssoc(a, b) == precidence(a) >= precidence(b)

OpGt(a, b) == precidence(a) > precidence(b)

operate(op, a, b) ==
    CASE op = "Add" -> FAdd(a, b)
      [] op = "Div" -> FDiv(a, b)
      [] op = "Mod" -> FRem(a, b)
      [] op = "Mult" -> FMul(a, b)
      [] op = "Exp" -> FMul(a, FPowf(<<10, 1>>, b))
      [] op = "Pow" -> FPowf(a, b)
      [] op = "Sub" -> FSub(a, b)
      [] OTHER -> NaN

(***************************************************************************)
(* Token: Operator(op) or Operand(text).                                   *)
(***************************************************************************)
OperatorTok(op) == [kind |-> "Operator", op |-> op, text |-> <<>>]
OperandTok(text) == [kind |-> "Operand", op |-> None, text |-> text]

(***************************************************************************)
(* str::parse::<f64>: an optional sign, then inf, infinity or nan in any   *)
(* case, or decimal digits with an optional point and an optional exponent.*)
(***************************************************************************)
Digits == {"0", "1", "2", "3", "4", "5", "6", "7", "8", "9"}

DigitVal(c) ==
    CASE c = "0" -> 0 [] c = "1" -> 1 [] c = "2" -> 2 [] c = "3" -> 3 [] c = "4" -> 4
      [] c = "5" -> 5 [] c = "6" -> 6 [] c = "7" -> 7 [] c = "8" -> 8 [] OTHER -> 9

Lower(c) ==
    CASE c = "I" -> "i" [] c = "N" -> "n" [] c = "F" -> "f" [] c = "A" -> "a"
      [] c = "T" -> "t" [] c = "Y" -> "y" [] c = "E" -> "e" [] OTHER -> c

LowerSeq(s) == [i \in 1..Len(s) |-> Lower(s[i])]

AllDigits(s) == \A i \in 1..Len(s) : s[i] \in Digits

\* The value of a digit string, capped just above FMax.
RECURSIVE DigitsVal(_, _)
DigitsVal(acc, s) ==
    IF s = <<>> \/ acc > FMax THEN acc
    ELSE DigitsVal(acc * 10 + DigitVal(Head(s)), Tail(s))

\* The first position of character c in s, or Len(s) + 1.
FirstPos(s, c) ==
    IF \E i \in 1..Len(s) : s[i] = c
    THEN CHOOSE i \in 1..Len(s) : s[i] = c /\ \A j \in 1..(i - 1) : s[j] # c
    ELSE Len(s) + 1

ParseDecimal(body) ==
    LET low == LowerSeq(body)
        ep == FirstPos(low, "e")
        mant == SubSeq(body, 1, ep - 1)
        hasExp == ep <= Len(body)
        ex == SubSeq(body, ep + 1, Len(body))
        exSigned == ex # <<>> /\ Head(ex) \in {"+", "-"}
        exDigits == IF exSigned THEN Tail(ex) ELSE ex
        dp == FirstPos(mant, ".")
        ip == SubSeq(mant, 1, dp - 1)
        fp == SubSeq(mant, dp + 1, Len(mant))
        m == DigitsVal(0, ip \o fp)
        e == DigitsVal(0, exDigits)
        e10 == (IF exSigned /\ Head(ex) = "-" THEN -e ELSE e) - Len(fp)
    IN  IF ~AllDigits(ip) \/ ~AllDigits(fp) \/ Len(ip) + Len(fp) = 0 THEN ParseError
        ELSE IF hasExp /\ (exDigits = <<>> \/ ~AllDigits(exDigits)) THEN ParseError
        ELSE IF m = 0 THEN <<0, 1>>
        ELSE IF m > FMax \/ e > FMax THEN OutOfModel
        ELSE FMul(<<m, 1>>, FPowf(<<10, 1>>, <<e10, 1>>))

ParseF64(text) ==
    LET signed == text # <<>> /\ Head(text) \in {"+", "-"}
        neg == signed /\ Head(text) = "-"
        body == IF signed THEN Tail(text) ELSE text
        low == LowerSeq(body)
        v == IF low = <<"i", "n", "f">> \/ low = <<"i", "n", "f", "i", "n", "i", "t", "y">>
             THEN PosInf
             ELSE IF low = <<"n", "a", "n">> THEN NaN
             ELSE ParseDecimal(body)
    IN  IF v = ParseError \/ v = OutOfModel THEN v
        ELSE IF neg THEN FNeg(v) ELSE v

(***************************************************************************)
(* tokenize: the work done for one character of the prepared expression.   *)
(* A Vec is a sequence whose last element is the top of the stack.         *)
(***************************************************************************)
VecLast(v) == IF v = <<>> THEN None ELSE v[Len(v)]

\* Vec::pop: the popped element (None on an empty Vec) and what is left.
VecPop(v) ==
    IF v = <<>> THEN [val |-> None, rest |-> v]
    ELSE [val |-> v[Len(v)], rest |-> SubSeq(v, 1, Len(v) - 1)]

\* expr.replace(" ", ""): only the space character is removed.
RemoveSpaces(e) == SelectSeq(e, LAMBDA c : c # " ")

\* format!("({})", ...)
Prepare(e) == <<"(">> \o RemoveSpaces(e) \o <<")">>

\* The close-parenthesis loop: pop to the output until an open parenthesis is
\* popped (and dropped) or the stack is empty.
RECURSIVE CloseLoopEmitParen(_, _)
CloseLoopEmitParen(ops, out) ==
    LET p == VecPop(ops)
    IN  IF p.val = None THEN [operators |-> p.rest, pe |-> out, panic |-> FALSE]
        ELSE IF p.val = "OpenParen"
             THEN [operators |-> p.rest, pe |-> Append(out, OperatorTok(p.val)), panic |-> FALSE]
        ELSE CloseLoopEmitParen(p.rest, Append(out, OperatorTok(p.val)))

RECURSIVE CloseLoop(_, _)
CloseLoop(ops, out) ==
    LET p == VecPop(ops)
    IN  IF p.val = None THEN [operators |-> p.rest, pe |-> out, panic |-> FALSE]
        ELSE IF p.val = "OpenParen" THEN [operators |-> p.rest, pe |-> out, panic |-> FALSE]
        ELSE CloseLoop(p.rest, Append(out, OperatorTok(p.val)))

\* The precedence loop with its emptiness test misplaced: the pop is reached on
\* an empty stack.
RECURSIVE PrecLoopUnguarded(_, _, _)
PrecLoopUnguarded(ops, out, op) ==
    LET nextop == VecLast(ops)
        p == VecPop(ops)
    IN  IF nextop # None /\ (OpEq(nextop, "OpenParen") \/ OpGt(op, nextop))
        THEN [operators |-> ops, pe |-> out, panic |-> FALSE]
        ELSE IF p.val = None THEN [operators |-> ops, pe |-> out, panic |-> TRUE]
        ELSE PrecLoopUnguarded(p.rest, Append(out, OperatorTok(p.val)), op)

\* The precedence loop with "if" for "while": at most one operator is popped.
PrecLoopOnce(ops, out, op) ==
    LET nextop == VecLast(ops)
        p == VecPop(ops)
    IN  IF nextop = None \/ OpEq(nextop, "OpenParen") \/ OpGt(op, nextop)
        THEN [operators |-> ops, pe |-> out, panic |-> FALSE]
        ELSE [operators |-> p.rest, pe |-> Append(out, OperatorTok(p.val)), panic |-> FALSE]

\* The precedence loop: while the stack has a top that is neither of the open
\* parenthesis's rank nor of lower rank than op, pop it to the output.  The
\* unwrap of the pop panics on None.
RECURSIVE PrecLoop(_, _, _)
PrecLoop(ops, out, op) ==
    LET nextop == VecLast(ops)
        p == VecPop(ops)
    IN  IF nextop = None THEN [operators |-> ops, pe |-> out, panic |-> FALSE]
        ELSE IF OpEq(nextop, "OpenParen") \/ OpGt(op, nextop)
             THEN [operators |-> ops, pe |-> out, panic |-> FALSE]
        ELSE IF p.val = None THEN [operators |-> ops, pe |-> out, panic |-> TRUE]
        ELSE PrecLoop(p.rest, Append(out, OperatorTok(p.val)), op)

\* The pending operand text is moved to the output when an operator character
\* arrives.
FlushOperand(out, buf) == IF buf # <<>> THEN Append(out, OperandTok(buf)) ELSE out

\* One iteration of the scan: st is [operators, pe, operand, panic], c the character.
ScanOne(st, c) ==
    LET op == try_from(c)
        out == FlushOperand(st.pe, st.operand)
    IN  IF op = None
        THEN [st EXCEPT !.operand = Append(st.operand, c)]
        ELSE IF op = "OpenParen"
             THEN [operators |-> Append(st.operators, op), pe |-> out,
                   operand |-> <<>>, panic |-> FALSE]
        ELSE IF op = "CloseParen"
             THEN LET r == CloseLoop(st.operators, out)
                  IN  [operators |-> r.operators, pe |-> r.pe, operand |-> <<>>,
                       panic |-> r.panic]
        ELSE LET r == PrecLoop(st.operators, out, op)
             IN  [operators |-> IF r.panic THEN r.operators ELSE Append(r.operators, op),
                  pe |-> r.pe, operand |-> <<>>, panic |-> r.panic]

\* The whole scan as a function of the prepared characters.
RECURSIVE ScanAll(_, _)
ScanAll(st, cs) ==
    IF cs = <<>> \/ st.panic THEN st ELSE ScanAll(ScanOne(st, Head(cs)), Tail(cs))

ScanStart == [operators |-> <<>>, pe |-> <<>>, operand |-> <<>>, panic |-> FALSE]

\* tokenize(expr), as a function: the output sequence after the scan.
Tokenize(e) == ScanAll(ScanStart, Prepare(e)).pe

(***************************************************************************)
(* evaluate: the work done for one token, and the final test.              *)
(***************************************************************************)
\* The outcome of one token on the operand stack: the new stack, or an error.
EvalOne(stack, tok) ==
    IF tok.kind = "Operand"
    THEN LET f == ParseF64(tok.text)
         IN  IF f = ParseError THEN [err |-> TRUE, stack |-> stack, val |-> f]
             ELSE [err |-> FALSE, stack |-> Append(stack, f), val |-> f]
    ELSE IF Len(stack) < 2 THEN [err |-> TRUE, stack |-> stack, val |-> NaN]
    ELSE LET b == stack[Len(stack)]
             a == stack[Len(stack) - 1]
             val == operate(tok.op, a, b)
         IN  IF IsNan(val) THEN [err |-> TRUE, stack |-> stack, val |-> val]
             ELSE [err |-> FALSE,
                   stack |-> Append(SubSeq(stack, 1, Len(stack) - 2), val), val |-> val]

\* The final test accepting any non-empty stack.
FinalOkLax(stack) == Len(stack) >= 1

\* After the last token: Ok exactly when one value is left.
FinalOk(stack) == Len(stack) = 1

(***************************************************************************)
(* The inputs the specifications draw from.                                *)
(***************************************************************************)
\* Characters of the arbitrary input strings: an operand digit, one operator
\* of each rank, both parentheses, a space and a tab.
Alphabet == {"2", "-", "*", "^", "(", ")", " ", "\t"}

Strings == UNION {[1..k -> Alphabet] : k \in 0..MaxLen}

\* Expression trees: a leaf <<digit>>, or a node <<operator character, left, right>>.
LeafDigits == {"2", "3"}
BinaryChars == {"+", "-", "*", "/", "%", "^", "E"}

RECURSIVE Trees(_)
Trees(k) ==
    IF k = 0 THEN {<<c>> : c \in LeafDigits}
    ELSE UNION {{<<o, l, r>> : o \in BinaryChars, l \in Trees(i), r \in Trees(k - 1 - i)} :
                i \in 0..(k - 1)}

AllTrees == UNION {Trees(k) : k \in 0..MaxOps}

\* The tokens evaluate is given directly.
OperandTexts == {<<"0">>, <<"2">>, <<"1", ".", "5">>, <<"N", "a", "N">>, <<"i", "n", "f">>, <<"x">>}
TokenSet == {OperatorTok(o) : o \in Operator} \cup {OperandTok(t) : t \in OperandTexts}
TokenSeqs == UNION {[1..k -> TokenSet] : k \in 0..MaxTokens}

(***************************************************************************)
(* The expression a tree is written as.  The ranks and the grouping here   *)
(* are those of the specification: Pow 3; Mult, Div, Mod, Exp 2; Add, Sub  *)
(* 1; operators of one rank group to the left.                             *)
(***************************************************************************)
RefRank(c) == IF c = "^" THEN 3 ELSE IF c \in {"+", "-"} THEN 1 ELSE 2

IsLeaf(t) == Len(t) = 1

Paren(s) == <<"(">> \o s \o <<")">>

\* style "min": parentheses only where the grouping needs them; "full": around
\* every operand that is itself an operation.
RECURSIVE Infix(_, _)
Infix(t, style) ==
    IF IsLeaf(t) THEN <<t[1]>>
    ELSE LET l == Infix(t[2], style)
             r == Infix(t[3], style)
             lp == ~IsLeaf(t[2]) /\ (style = "full" \/ RefRank(t[2][1]) < RefRank(t[1]))
             rp == ~IsLeaf(t[3]) /\ (style = "full" \/ RefRank(t[3][1]) <= RefRank(t[1]))
         IN  (IF lp THEN Paren(l) ELSE l) \o <<t[1]>> \o (IF rp THEN Paren(r) ELSE r)

Unset == <<0, -3>>
RefErr == <<0, -4>>

RefApply(c, a, b) ==
    CASE c = "+" -> FAdd(a, b)
      [] c = "-" -> FSub(a, b)
      [] c = "*" -> FMul(a, b)
      [] c = "/" -> FDiv(a, b)
      [] c = "%" -> FRem(a, b)
      [] c = "^" -> FPowf(a, b)
      [] OTHER -> FMul(a, FPowf(<<10, 1>>, b))

\* The value of a tree, left operand first: RefErr when an operation is
\* undefined (NaN), OutOfModel when it leaves the modelled numbers.
RECURSIVE TreeVal(_)
TreeVal(t) ==
    IF IsLeaf(t) THEN <<DigitVal(t[1]), 1>>
    ELSE LET a == TreeVal(t[2])
         IN  IF a = RefErr \/ a = OutOfModel THEN a
             ELSE LET b == TreeVal(t[3])
                  IN  IF b = RefErr \/ b = OutOfModel THEN b
                      ELSE LET v == RefApply(t[1], a, b)
                           IN  IF IsNan(v) THEN RefErr ELSE v

(***************************************************************************)
(* The state machine: calculate(expr) = evaluate(tokenize(expr)).          *)
(***************************************************************************)
TokenizeInit(e) ==
    /\ expr = e
    /\ chars = Prepare(e)
    /\ idx = 1
    /\ operators = <<>>
    /\ pe = <<>>
    /\ operand = <<>>
    /\ pc = "tokenize"
    /\ tokens = <<>>
    /\ tidx = 1
    /\ operands = <<>>
    /\ ret = Unset

\* Any string over the alphabet.
Init ==
    /\ tree = <<>>
    /\ \E e \in Strings : TokenizeInit(e)

\* A well-formed expression: a tree written in one of the two styles.
WfInit ==
    /\ tree \in AllTrees
    /\ \E style \in {"min", "full"} : TokenizeInit(Infix(tree, style))

\* evaluate called on any token sequence.
EvalInit ==
    /\ tree = <<>>
    /\ expr = <<>>
    /\ chars = <<>>
    /\ idx = 1
    /\ operators = <<>>
    /\ pe = <<>>
    /\ operand = <<>>
    /\ pc = "evaluate"
    /\ tokens \in TokenSeqs
    /\ tidx = 1
    /\ operands = <<>>
    /\ ret = Unset

\* The body of the for loop of tokenize, for the character at idx.
ScanChar ==
    /\ pc = "tokenize"
    /\ idx <= Len(chars)
    /\ LET st == ScanOne([operators |-> operators, pe |-> pe, operand |-> operand,
                          panic |-> FALSE], chars[idx])
       IN  /\ operators' = st.operators
           /\ pe' = st.pe
           /\ operand' = st.operand
           /\ pc' = IF st.panic THEN "panic" ELSE "tokenize"
    /\ idx' = idx + 1
    /\ UNCHANGED <<expr, chars, tokens, tidx, operands, ret, tree>>

\* tokenize returns pe; calculate hands it to evaluate.
TokenizeReturn ==
    /\ pc = "tokenize"
    /\ idx > Len(chars)
    /\ tokens' = pe
    /\ tidx' = 1
    /\ operands' = <<>>
    /\ pc' = "evaluate"
    /\ UNCHANGED <<expr, chars, idx, operators, pe, operand, ret, tree>>

\* The body of the for loop of evaluate, for the token at tidx.
EvalToken ==
    /\ pc = "evaluate"
    /\ tidx <= Len(tokens)
    /\ LET r == EvalOne(operands, tokens[tidx])
       IN  /\ r.val # OutOfModel
           /\ operands' = r.stack
           /\ pc' = IF r.err THEN "Err" ELSE "evaluate"
           /\ tidx' = IF r.err THEN tidx ELSE tidx + 1
    /\ UNCHANGED <<expr, chars, idx, operators, pe, operand, tokens, ret, tree>>

\* After the loop of evaluate: the length test and the result.
EvalReturn ==
    /\ pc = "evaluate"
    /\ tidx > Len(tokens)
    /\ pc' = IF FinalOk(operands) THEN "Ok" ELSE "Err"
    /\ ret' = IF FinalOk(operands) THEN operands[1] ELSE ret
    /\ UNCHANGED <<expr, chars, idx, operators, pe, operand, tokens, tidx, operands, tree>>

Next == ScanChar \/ TokenizeReturn \/ EvalToken \/ EvalReturn

EvalNext == EvalToken \/ EvalReturn

Spec == Init /\ [][Next]_vars

WfSpec == WfInit /\ [][Next]_vars

EvalSpec == EvalInit /\ [][EvalNext]_vars

(***************************************************************************)
(* Vocabulary of the properties.                                           *)
(***************************************************************************)
Finished == pc \in {"Ok", "Err"}

ScanDone == pc # "tokenize" \/ idx > Len(chars)

IsArith(op) == op \in Operator \ {"OpenParen", "CloseParen"}

IsArithChar(c) == IsArith(try_from(c))

NumOperands(seq) == Cardinality({i \in 1..Len(seq) : seq[i].kind = "Operand"})

NumOperators(seq) == Cardinality({i \in 1..Len(seq) : seq[i].kind = "Operator"})

\* Parentheses opened and not yet closed after the first k characters.
ParenDepth(e, k) ==
    Cardinality({i \in 1..k : e[i] = "("}) - Cardinality({i \in 1..k : e[i] = ")"})

ExtraClose(e) == \E k \in 1..Len(e) : ParenDepth(e, k) < 0

ExtraOpen(e) == ParenDepth(e, Len(e)) > 0

StripWhitespace(e) == SelectSeq(e, LAMBDA c : c \notin {" ", "\t", "\n"})

ConsecutiveOperators(e) ==
    LET s == StripWhitespace(e)
    IN  \E i \in 1..(Len(s) - 1) : IsArithChar(s[i]) /\ IsArithChar(s[i + 1])

MissingOperand(e) ==
    LET s == StripWhitespace(e)
    IN  /\ s # <<>>
        /\ \/ IsArithChar(s[1])
           \/ IsArithChar(s[Len(s)])
           \/ \E i \in 1..(Len(s) - 1) :
                \/ s[i] = "(" /\ (IsArithChar(s[i + 1]) \/ s[i + 1] = ")")
                \/ IsArithChar(s[i]) /\ s[i + 1] = ")"

Malformed(e) ==
    ExtraClose(e) \/ ExtraOpen(e) \/ ConsecutiveOperators(e) \/ MissingOperand(e)

(***************************************************************************)
(* The claims.                                                             *)
(***************************************************************************)

\* C1: for every well-formed expression (a tree written with only the
\* parentheses its grouping needs, or fully parenthesised), tokenize then
\* evaluate ends with the value of that tree, operands in their written order;
\* it ends in an error exactly when an operation of the tree is undefined.
C1_WellFormedValue == Finished => (IF pc = "Ok" THEN ret ELSE RefErr) = TreeVal(tree)

\* a^b^c written without parentheses has been evaluated as (a^b)^c.
C1_Witness ==
    /\ pc = "Ok"
    /\ Len(tree) = 3 /\ tree[1] = "^"
    /\ Len(tree[2]) = 3 /\ tree[2][1] = "^"
    /\ \A i \in 1..Len(expr) : expr[i] # "("
    /\ ret = TreeVal(tree)
    /\ ret # TreeVal(<<"^", tree[2][2], <<"^", tree[2][3], tree[3]>>>>)

\* C2 (as stated): evaluate never returns Ok with a non-finite result of an
\* operator application: when the last token is an operator, the value
\* returned is the result of applying it, and it is finite.
C2_NonFiniteIsError ==
    (pc = "Ok" /\ tokens[Len(tokens)].kind = "Operator") => IsFinite(ret)

\* C3 (as stated): no malformed input (consecutive operators, a missing
\* operand, an extra "(" or an extra ")") yields Ok from the pipeline.
C3_MalformedIsError == (Finished /\ Malformed(expr)) => pc = "Err"

\* C4: evaluate returns an error if an operand text does not parse, if an
\* operator is met with fewer than two values before it, or if the operands
\* are not one more than the operators; it returns Ok only after the last
\* token, with exactly one value on the stack, which is the value returned.
C4_EvaluateErrors ==
    Finished =>
        LET n == Len(tokens)
            isOperand(t) == t.kind = "Operand"
            isOperator(t) == t.kind = "Operator"
            before(i) == SubSeq(tokens, 1, i - 1)
        IN  /\ (\E i \in 1..n : isOperand(tokens[i]) /\ ParseF64(tokens[i].text) = ParseError)
                  => pc = "Err"
            /\ (\E i \in 1..n : /\ isOperator(tokens[i])
                                /\ NumOperands(before(i)) - NumOperators(before(i)) < 2)
                  => pc = "Err"
            /\ NumOperands(tokens) # NumOperators(tokens) + 1 => pc = "Err"
            /\ pc = "Ok" => tidx = n + 1 /\ Len(operands) = 1 /\ ret = operands[1]

\* evaluate has returned an error after the last token because two values
\* were left, and every token before was processed without error.
C4_Witness ==
    /\ pc = "Err"
    /\ chars = <<>>
    /\ tidx = Len(tokens) + 1
    /\ Len(tokens) >= 2
    /\ Len(operands) = 2

\* C5: the output of tokenize never holds a parenthesis token, and a close
\* parenthesis is never on the operator stack.
C5_NoParenTokens ==
    /\ \A i \in 1..Len(pe) : pe[i].op \notin {"OpenParen", "CloseParen"}
    /\ \A i \in 1..Len(operators) : operators[i] # "CloseParen"

\* The scan of an input with a parenthesised operation has finished.
C5_Witness ==
    /\ pc = "evaluate"
    /\ \E i \in 1..Len(expr) : expr[i] = "("
    /\ \E i \in 1..Len(expr) : expr[i] = ")"
    /\ \E i \in 1..Len(tokens) : tokens[i].kind = "Operator"

\* C6: tokenize never fails at run time (the pop of the precedence loop is
\* never made on an empty stack), always has a next step until it returns, and
\* returns after one step per character of the prepared expression.
C6_TokenizeTotal ==
    /\ pc # "panic"
    /\ idx <= Len(chars) + 1
    /\ pc = "tokenize" => ENABLED (ScanChar \/ TokenizeReturn)
    /\ pc # "tokenize" => idx = Len(chars) + 1

\* The precedence loop has popped an operator (no close parenthesis was in the
\* input to do it), on an operator-only input.
C6_Witness ==
    /\ pc = "tokenize"
    /\ Len(expr) >= 3
    /\ \A i \in 1..Len(expr) : IsArithChar(expr[i])
    /\ \E i \in 1..Len(pe) : pe[i].kind = "Operator"

\* C7 (as stated): tokenize(s) is tokenize of s with every space, tab and
\* newline deleted, and no operand text holds a whitespace character.
C7_WhitespaceRemoved ==
    ScanDone =>
        /\ pe = Tokenize(StripWhitespace(expr))
        /\ \A i \in 1..Len(pe) : \A j \in 1..Len(pe[i].text) :
               pe[i].text[j] \notin {" ", "\t", "\n"}

\* C8 (as stated): when the scan finishes no arithmetic operator is left on
\* the operator stack, and each arithmetic operator occurs as often among the
\* output tokens as its character does in the input.
C8_AllOperatorsDrained ==
    ScanDone =>
        /\ \A i \in 1..Len(operators) : ~IsArith(operators[i])
        /\ \A o \in Operator :
               IsArith(o) =>
                   Cardinality({i \in 1..Len(expr) : try_from(expr[i]) = o})
                       = Cardinality({i \in 1..Len(pe) : pe[i].op = o})

\* C9 (as stated): evaluate never returns Ok carrying NaN.
C9_NeverOkNaN == pc = "Ok" => ~IsNan(ret)

\* C10: the operator stack holds only open parentheses and arithmetic
\* operators; two arithmetic operators next to each other have strictly
\* increasing ranks (Add, Sub 1; Mult, Div, Mod, Exp 2; Pow 3) from bottom to
\* top; so no run of arithmetic operators is longer than three.
C10_StackRanksIncrease ==
    LET rank(o) == IF o = "Pow" THEN 3 ELSE IF o \in {"Add", "Sub"} THEN 1 ELSE 2
        n == Len(operators)
    IN  /\ \A i \in 1..n : operators[i] = "OpenParen" \/ IsArith(operators[i])
        /\ \A i \in 1..(n - 1) :
               (IsArith(operators[i]) /\ IsArith(operators[i + 1]))
                   => rank(operators[i]) < rank(operators[i + 1])
        /\ \A i \in 1..(n - 3) : \E j \in i..(i + 3) : ~IsArith(operators[j])

\* Three arithmetic operators sit above an open parenthesis, and the precedence
\* loop has popped before.
C10_Witness ==
    /\ pc = "tokenize"
    /\ Len(operators) >= 4
    /\ \A j \in (Len(operators) - 2)..Len(operators) : IsArith(operators[j])
    /\ \E i \in 1..Len(pe) : pe[i].kind = "Operator"

====
